---- MODULE Spec2Model ----
(***************************************************************************)
(* Model of ErrorLabeling (error_labeling.py): the constructor and the     *)
(* compute() method, one step per executed statement group of compute().   *)
(*                                                                         *)
(* Detections are the flat tuples the code indexes positionally:           *)
(*   ground truth  <<class, x1, y1, x2, y2>>                               *)
(*   prediction    <<class, x1, y1, x2, y2, confidence>>                   *)
(* Python's 0-based positions become 1-based here: x[0] is x[1], x[-1] is  *)
(* x[Len(x)], x[1:5] is SubSeq(x, 2, 5) cut at the end of the tuple.       *)
(* Box coordinates and confidences are small integers; an IoU is kept as   *)
(* the exact fraction <<intersection, union>> and the threshold as the     *)
(* fraction <<numerator, denominator>>, so comparisons are exact.          *)
(***************************************************************************)
EXTENDS Integers, Sequences, FiniteSets, TLC

VARIABLES
    pred_y,            \* self._pred_y
    true_y,            \* self._true_y
    iou_threshold,     \* self._iou_threshold, a fraction <<num, den>>
    match_matrix,      \* self._match_matrix
    pc,                \* "idle" | "loop" | "raised": position of the caller in compute()
    gt_index,          \* outer loop variable of compute()
    detect_index,      \* inner loop variable of compute()
    original_indices,  \* local of compute()
    sorted_list,       \* local of compute()
    calls,             \* history: compute() calls started so far: 0, 1, or 2 for "more than one"
    matrix_at_call,    \* history: match_matrix when the current/last call started
    pair_label         \* history: label last written for (gt, original prediction)

vars == <<pred_y, true_y, iou_threshold, match_matrix, pc, gt_index,
          detect_index, original_indices, sorted_list, calls,
          matrix_at_call, pair_label>>

----------------------------------------------------------------------------
(* Bounds of the model *)

MaxPred == 3
MaxGT == 2

----------------------------------------------------------------------------
(* ErrorLabelType *)

MISSING == "missing"
BACKGROUND == "background"
LOCALIZATION == "localization"
CLASS_NAME == "class_name"
CLASS_LOCALIZATION == "class_localization"
DUPLICATE_DETECTION == "duplicate_detection"
MATCH == "match"
None == "None"

ErrorLabelType ==
    {MISSING, BACKGROUND, LOCALIZATION, CLASS_NAME, CLASS_LOCALIZATION,
     DUPLICATE_DETECTION, MATCH}

----------------------------------------------------------------------------
(* Inputs the caller may pass to the constructor *)

\* three boxes: BoxA and BoxB overlap with IoU 1/3, BoxC is disjoint from both
BoxA == <<0, 0, 2, 2>>
BoxB == <<1, 0, 3, 2>>
BoxC == <<4, 4, 6, 6>>

\* one prediction of each kind the loop body tells apart against a ground
\* truth of class 1 at BoxA (same box twice, at both confidences; other class;
\* partial overlap with either class; no overlap with either class), and one
\* that lacks a box coordinate
PredDomain ==
    { <<1>> \o BoxA \o <<1>>, <<1>> \o BoxA \o <<2>>, <<2>> \o BoxA \o <<1>>,
      <<1>> \o BoxB \o <<2>>, <<2>> \o BoxB \o <<1>>, <<1>> \o BoxC \o <<2>>,
      <<2>> \o BoxC \o <<1>>, <<1, 0, 0, 2>> }

\* a well-formed ground truth, and one that lacks box coordinates
GtDomain ==
    { <<1>> \o BoxA, <<1, 0, 0>> }

\* 0, the default 0.5, and a value above 1
DefaultIouThreshold == <<1, 2>>
Thresholds == {<<0, 1>>, DefaultIouThreshold, <<3, 2>>}

SeqUpTo(S, n) == UNION {[1..k -> S] : k \in 0..n}

----------------------------------------------------------------------------
(* Helpers *)

Max(a, b) == IF a >= b THEN a ELSE b
Min(a, b) == IF a <= b THEN a ELSE b

Reverse(s) == [i \in 1..Len(s) |-> s[Len(s) + 1 - i]]

\* x[1:5]
BoxSlice(x) == SubSeq(x, 2, Min(5, Len(x)))

\* x[-1]
Score(x) == x[Len(x)]

\* Tensor(b).unsqueeze(0).view(-1, 4) followed by box_iou(...).item() yields a
\* scalar only for four coordinates
Malformed(x) == Len(BoxSlice(x)) # 4

BoxArea(b) == (b[3] - b[1]) * (b[4] - b[2])

\* torchvision.ops.box_iou of two single boxes, as <<intersection, union>>
box_iou(a, b) ==
    LET w == Max(0, Min(a[3], b[3]) - Max(a[1], b[1]))
        h == Max(0, Min(a[4], b[4]) - Max(a[2], b[2]))
        inter == w * h
    IN  <<inter, BoxArea(a) + BoxArea(b) - inter>>

\* iou_score.item() == 0.0
IouIsZero(iou) == iou[1] = 0

\* self._iou_threshold <= iou_score
ThresholdLeIou(thr, iou) == thr[1] * iou[2] <= iou[1] * thr[2]

----------------------------------------------------------------------------
(* sorted(..., key=..., reverse=True) on a sequence of <<key, item>> pairs. *)
(* list.sort with reverse=True reverses the list, sorts it ascending with a *)
(* stable sort, and reverses the result.                                    *)

\* insert x behind every element whose key is <= the key of x
InsertAsc(s, x) ==
    LET n == Cardinality({i \in 1..Len(s) : s[i][1] <= x[1]})
    IN  SubSeq(s, 1, n) \o <<x>> \o SubSeq(s, n + 1, Len(s))

RECURSIVE SortAsc(_)
SortAsc(s) ==
    IF s = <<>> THEN <<>>
    ELSE InsertAsc(SortAsc(SubSeq(s, 1, Len(s) - 1)), s[Len(s)])

SortedReverseUnstable(pairs) == Reverse(SortAsc(pairs))

SortedReverse(pairs) == Reverse(SortAsc(Reverse(pairs)))

\* [i for i, _ in sorted(enumerate(self._pred_y), key=lambda x: x[1][-1], reverse=True)]
OriginalIndices(preds) ==
    LET s == SortedReverse([i \in 1..Len(preds) |-> <<Score(preds[i]), i>>])
    IN  [k \in 1..Len(s) |-> s[k][2]]

\* sorted(self._pred_y, key=lambda x: x[-1], reverse=True)
SortedList(preds) ==
    LET s == SortedReverse([i \in 1..Len(preds) |-> <<Score(preds[i]), preds[i]>>])
    IN  [k \in 1..Len(s) |-> s[k][2]]

----------------------------------------------------------------------------
(* __init__ *)

\* np.full((len(self._true_y), len(self._pred_y)), None)
FullNoneSwapped(truths, preds) ==
    [g \in 1..Len(preds) |-> [p \in 1..Len(truths) |-> None]]

FullNone(truths, preds) ==
    [g \in 1..Len(truths) |-> [p \in 1..Len(preds) |-> None]]

Init ==
    /\ pred_y \in SeqUpTo(PredDomain, MaxPred)
    /\ true_y \in SeqUpTo(GtDomain, MaxGT)
    /\ iou_threshold \in Thresholds
    /\ match_matrix = FullNone(true_y, pred_y)
    /\ pc = "idle"
    /\ gt_index = 0
    /\ detect_index = 0
    /\ original_indices = <<>>
    /\ sorted_list = <<>>
    /\ calls = 0
    /\ matrix_at_call = match_matrix
    /\ pair_label = match_matrix

----------------------------------------------------------------------------
(* compute() *)

\* ErrorLabelType.MATCH in self._match_matrix[gt_index]
MatchInEarlierCells(g) ==
    \E j \in 1..(detect_index - 1) : match_matrix[g][j] = MATCH

MatchInRow(g) ==
    \E j \in 1..Len(match_matrix[g]) : match_matrix[g][j] = MATCH

\* the if/elif/else chain of the loop body
LabelClassFirst(detect, gt, g) ==
    LET iou == box_iou(BoxSlice(detect), BoxSlice(gt))
    IN  IF ThresholdLeIou(iou_threshold, iou) /\ detect[1] # gt[1] THEN CLASS_NAME
        ELSE IF IouIsZero(iou) THEN BACKGROUND
        ELSE IF ThresholdLeIou(iou_threshold, iou)
             THEN IF MatchInRow(g) THEN DUPLICATE_DETECTION ELSE MATCH
        ELSE IF detect[1] # gt[1] THEN CLASS_LOCALIZATION
        ELSE LOCALIZATION

Label(detect, gt, g) ==
    LET iou == box_iou(BoxSlice(detect), BoxSlice(gt))
    IN  IF IouIsZero(iou) THEN BACKGROUND
        ELSE IF ThresholdLeIou(iou_threshold, iou)
             THEN IF detect[1] # gt[1] THEN CLASS_NAME
                  ELSE IF MatchInRow(g) THEN DUPLICATE_DETECTION
                  ELSE MATCH
        ELSE IF detect[1] # gt[1] THEN CLASS_LOCALIZATION
        ELSE LOCALIZATION

\* the call, the two sorts, and entry into the loops
ComputeBegin ==
    /\ pc \in {"idle", "raised"}
    /\ original_indices' = OriginalIndices(pred_y)
    /\ sorted_list' = SortedList(pred_y)
    /\ gt_index' = 1
    /\ detect_index' = 1
    /\ pc' = "loop"
    /\ calls' = IF calls = 0 THEN 1 ELSE 2
    /\ matrix_at_call' = match_matrix
    /\ pair_label' = FullNone(true_y, pred_y)
    /\ UNCHANGED <<pred_y, true_y, iou_threshold, match_matrix>>

\* one iteration of the inner loop that stores a label
LabelCell ==
    /\ pc = "loop"
    /\ gt_index <= Len(true_y)
    /\ detect_index <= Len(sorted_list)
    /\ ~Malformed(sorted_list[detect_index])
    /\ ~Malformed(true_y[gt_index])
    /\ LET l == Label(sorted_list[detect_index], true_y[gt_index], gt_index)
       IN  /\ match_matrix' =
                [match_matrix EXCEPT ![gt_index][detect_index] = l]
           /\ pair_label' =
                [pair_label EXCEPT ![gt_index][original_indices[detect_index]] = l]
    /\ detect_index' = detect_index + 1
    /\ UNCHANGED <<pred_y, true_y, iou_threshold, pc, gt_index,
                   original_indices, sorted_list, calls, matrix_at_call>>

\* one iteration of the inner loop whose IoU step raises
RaiseInIou ==
    /\ pc = "loop"
    /\ gt_index <= Len(true_y)
    /\ detect_index <= Len(sorted_list)
    /\ Malformed(sorted_list[detect_index]) \/ Malformed(true_y[gt_index])
    /\ pc' = "raised"
    /\ gt_index' = 0
    /\ detect_index' = 0
    /\ original_indices' = <<>>
    /\ sorted_list' = <<>>
    /\ UNCHANGED <<pred_y, true_y, iou_threshold, match_matrix, calls,
                   matrix_at_call, pair_label>>

\* [self._match_matrix[gt_index][i] for i in original_indices]
Resorted(row, indices) ==
    [j \in 1..Len(indices) |-> row[indices[j]]]

\* end of the inner loop: the row is re-ordered and the outer loop advances
ResortRow ==
    /\ pc = "loop"
    /\ gt_index <= Len(true_y)
    /\ detect_index > Len(sorted_list)
    /\ match_matrix' =
         [match_matrix EXCEPT ![gt_index] = Resorted(@, original_indices)]
    /\ gt_index' = gt_index + 1
    /\ detect_index' = 1
    /\ UNCHANGED <<pred_y, true_y, iou_threshold, pc, original_indices,
                   sorted_list, calls, matrix_at_call, pair_label>>

\* end of the outer loop: compute() returns
ComputeReturn ==
    /\ pc = "loop"
    /\ gt_index > Len(true_y)
    /\ pc' = "idle"
    /\ gt_index' = 0
    /\ detect_index' = 0
    /\ original_indices' = <<>>
    /\ sorted_list' = <<>>
    /\ UNCHANGED <<pred_y, true_y, iou_threshold, match_matrix, calls,
                   matrix_at_call, pair_label>>

Next ==
    \/ ComputeBegin
    \/ LabelCell
    \/ RaiseInIou
    \/ ResortRow
    \/ ComputeReturn

Spec == Init /\ [][Next]_vars

----------------------------------------------------------------------------
(* Vocabulary of the properties *)

\* a compute() call has returned (and none is running)
Completed == pc = "idle" /\ calls >= 1

\* exactly one compute() call was made, and it has returned
FirstCompleted == pc = "idle" /\ calls = 1

InRow(g, l) == \E j \in 1..Len(match_matrix[g]) : match_matrix[g][j] = l

\* prediction p (input order) has the class of ground truth g and a non-zero
\* IoU with it that reaches the threshold
Qualifies(g, p) ==
    /\ ~Malformed(pred_y[p])
    /\ ~Malformed(true_y[g])
    /\ pred_y[p][1] = true_y[g][1]
    /\ LET iou == box_iou(BoxSlice(pred_y[p]), BoxSlice(true_y[g]))
       IN  iou[1] > 0 /\ iou_threshold[1] * iou[2] <= iou[1] * iou_threshold[2]

\* p is the qualifying prediction of highest confidence for g, the earliest in
\* input order among equal confidences
IsBest(g, p) ==
    /\ Qualifies(g, p)
    /\ \A q \in 1..Len(pred_y) :
         Qualifies(g, q) =>
            \/ Score(pred_y[q]) < Score(pred_y[p])
            \/ Score(pred_y[q]) = Score(pred_y[p]) /\ p <= q

\* C1: after compute() on a fresh instance, cell [g][p] holds the label that
\* was computed for the pair (ground truth g, prediction p of the input order).
C1_UnsortRestoresInputOrder ==
    FirstCompleted =>
        \A g \in 1..Len(true_y) : \A p \in 1..Len(pred_y) :
            match_matrix[g][p] = pair_label[g][p]

\* C2: in every row returned by compute(), the best qualifying prediction is
\* MATCH and every other qualifying prediction is DUPLICATE_DETECTION.
C2_BestQualifyingIsMatch ==
    Completed =>
        \A g \in 1..Len(true_y) : \A p \in 1..Len(pred_y) :
            Qualifies(g, p) =>
                match_matrix[g][p] =
                    IF IsBest(g, p) THEN MATCH ELSE DUPLICATE_DETECTION

\* C3: a further compute() with unchanged inputs leaves the matrix equal to
\* the matrix the previous call returned.
C3_ComputeIdempotent ==
    (pc = "idle" /\ calls = 2) => match_matrix = matrix_at_call

\* C4: after any completed compute(), a row has no MATCH exactly when no
\* prediction qualifies for its ground truth.
C4_NoMatchIffMissing ==
    Completed =>
        \A g \in 1..Len(true_y) :
            (~InRow(g, MATCH)) <=> (~\E p \in 1..Len(pred_y) : Qualifies(g, p))

\* C5: the matrix always has shape (|true_y|, |pred_y|); after a completed
\* compute() every cell is one of the six labels other than MISSING; with an
\* empty list compute() never raises and can always take its next step.
C5_ShapeAndLabels ==
    /\ DOMAIN match_matrix = 1..Len(true_y)
    /\ \A g \in DOMAIN match_matrix :
         DOMAIN match_matrix[g] = 1..Len(pred_y)
    /\ Completed =>
         \A g \in 1..Len(true_y) : \A p \in 1..Len(pred_y) :
            match_matrix[g][p] \in
                {BACKGROUND, CLASS_NAME, CLASS_LOCALIZATION, LOCALIZATION,
                 DUPLICATE_DETECTION, MATCH}
    /\ (true_y = <<>> \/ pred_y = <<>>) =>
         /\ pc # "raised"
         /\ pc = "loop" => ENABLED (ResortRow \/ ComputeReturn)

C5_Witness ==
    /\ pc = "idle"
    /\ calls = 2
    /\ Len(true_y) = 2
    /\ Len(pred_y) = 3
    /\ InRow(1, MATCH)
    /\ InRow(2, BACKGROUND)

\* C6: no instance ever holds an IoU threshold outside [0, 1].
C6_ThresholdInUnitInterval ==
    /\ 0 <= iou_threshold[1]
    /\ iou_threshold[1] <= iou_threshold[2]

\* C7: when compute() raises on a malformed entry, the matrix equals the
\* matrix before the call.
C7_RaiseLeavesMatrixUntouched ==
    pc = "raised" => match_matrix = matrix_at_call

\* C8: during the first compute(), every label already written in the current
\* row (sorted positions, before the row is permuted back) follows the
\* priority: IoU = 0 -> BACKGROUND; else IoU >= threshold -> CLASS_NAME if the
\* classes differ, else DUPLICATE_DETECTION if an earlier sorted position of
\* the row is MATCH, else MATCH; else CLASS_LOCALIZATION if the classes
\* differ, else LOCALIZATION.
PriorityLabel(g, k) ==
    LET d == sorted_list[k]
        t == true_y[g]
        iou == box_iou(BoxSlice(d), BoxSlice(t))
        reaches == iou_threshold[1] * iou[2] <= iou[1] * iou_threshold[2]
    IN  CASE iou[1] = 0 -> BACKGROUND
          [] iou[1] # 0 /\ reaches /\ d[1] # t[1] -> CLASS_NAME
          [] iou[1] # 0 /\ reaches /\ d[1] = t[1] ->
                IF \E j \in 1..(k - 1) : match_matrix[g][j] = MATCH
                THEN DUPLICATE_DETECTION ELSE MATCH
          [] iou[1] # 0 /\ ~reaches /\ d[1] # t[1] -> CLASS_LOCALIZATION
          [] iou[1] # 0 /\ ~reaches /\ d[1] = t[1] -> LOCALIZATION

C8_LabelPriority ==
    (pc = "loop" /\ calls = 1 /\ gt_index <= Len(true_y)) =>
        \A k \in 1..(detect_index - 1) :
            match_matrix[gt_index][k] = PriorityLabel(gt_index, k)

C8_Witness ==
    /\ pc = "loop"
    /\ calls = 1
    /\ gt_index = 2
    /\ detect_index = 4
    /\ iou_threshold = <<0, 1>>
    /\ match_matrix[2][1] = MATCH
    /\ match_matrix[2][2] = BACKGROUND
    /\ match_matrix[2][3] = DUPLICATE_DETECTION

\* C9: inside compute(), sorted_list is the predictions in non-increasing
\* confidence order with equal confidences in input order, original_indices
\* is a permutation with sorted_list[k] = pred_y[original_indices[k]]; and no
\* step changes pred_y.
SortsAgreeAndStable ==
    pc = "loop" =>
        /\ Len(sorted_list) = Len(pred_y)
        /\ Len(original_indices) = Len(pred_y)
        /\ {original_indices[k] : k \in 1..Len(original_indices)} = 1..Len(pred_y)
        /\ \A k \in 1..Len(pred_y) : sorted_list[k] = pred_y[original_indices[k]]
        /\ \A k, l \in 1..Len(pred_y) :
             k < l =>
                \/ Score(sorted_list[k]) > Score(sorted_list[l])
                \/ /\ Score(sorted_list[k]) = Score(sorted_list[l])
                   /\ original_indices[k] < original_indices[l]

C9_StableSorts == []SortsAgreeAndStable /\ [][pred_y' = pred_y]_vars

C9_Witness ==
    /\ pc = "loop"
    /\ original_indices = <<2, 3, 1>>
    /\ Score(pred_y[2]) = Score(pred_y[3])
    /\ \A p \in 1..Len(pred_y) : ~Malformed(pred_y[p])
    /\ true_y # <<>>

\* C10: in every reachable state every row holds at most one MATCH.
C10_AtMostOneMatchPerRow ==
    \A g \in DOMAIN match_matrix :
        Cardinality({j \in DOMAIN match_matrix[g] : match_matrix[g][j] = MATCH}) <= 1

\* a re-run is in the middle of a row that still holds the previous run's MATCH
C10_Witness ==
    /\ pc = "loop"
    /\ calls = 2
    /\ gt_index <= Len(true_y)
    /\ 1 < detect_index
    /\ \A j \in 1..Len(pred_y) : matrix_at_call[gt_index][j] # None
    /\ \E j \in detect_index..Len(pred_y) : match_matrix[gt_index][j] = MATCH

====
